---------------------------- MODULE Spec2Model ----------------------------
(***************************************************************************)
(* The dashboard callback update_dashboard of src/src/app.py as a state    *)
(* machine: one request from the click to the returned outputs (or to the  *)
(* exception that leaves the callback).                                    *)
(*                                                                         *)
(* Numbers.  A price is an integer count of thousandths (123456 stands for *)
(* the float 123.456); NaN stands for a missing value.  The price domain   *)
(* holds only values on which the float computation of round(2) is exact:  *)
(* values that are no tie at the third decimal, and ties that a binary     *)
(* float represents exactly (x.125, x.375, x.625, x.875).                  *)
(* Text.  A Python str is a sequence of chunks; an f-string concatenates.  *)
(***************************************************************************)
EXTENDS Integers, Sequences, FiniteSets, TLC

VARIABLES
    pc,             \* position of the request in update_dashboard
    ticker,         \* State("ticker-input", "value")
    start_date,     \* State("date-picker", "start_date")
    end_date,       \* State("date-picker", "end_date")
    calls,          \* the yf.download calls made so far, with what each gave
    today,          \* local: date.today()
    year_ago,       \* local: today - timedelta(days=365)
    df_chart,       \* local
    df_metrics,     \* local
    figs,           \* locals candlestick_fig, price_fig
    latest_close,   \* local
    week_52_high,   \* local
    week_52_low,    \* local
    cards,          \* locals close_card, high_card, low_card
    ret,            \* the 7 outputs the callback returned
    exc             \* the exception that left the callback

vars == <<pc, ticker, start_date, end_date, calls, today, year_ago, df_chart,
          df_metrics, figs, latest_close, week_52_high, week_52_low, cards, ret, exc>>

-----------------------------------------------------------------------------
(* Bounds and input domains *)

MaxRows == 2

NaN == -1
Unset == -2
None == [none |-> TRUE]

OHLCV == <<"Open", "High", "Low", "Close", "Volume">>

\* The columns of a response: all five, or a response that lacks Close.
FieldLists == { OHLCV, <<"Open", "High", "Low", "Volume">> }

\* Bars the provider can return: low <= open, close <= high on every bar that
\* has its values; the last one is a row whose values are all missing.
BarPool ==
    { [Open |-> 10000,  High |-> 12000,  Low |-> 9000,   Close |-> 11125,  Volume |-> 100],
      [Open |-> 123000, High |-> 124375, Low |-> 122000, Close |-> 123456, Volume |-> 250],
      [Open |-> NaN,    High |-> NaN,    Low |-> NaN,    Close |-> NaN,    Volume |-> NaN] }

\* The index of a daily response: ascending, no duplicates.
TradingDays ==
    << [year |-> 2023, month |-> 12, day |-> 29],
       [year |-> 2024, month |-> 1,  day |-> 2],
       [year |-> 2024, month |-> 1,  day |-> 3],
       [year |-> 2024, month |-> 1,  day |-> 4] >>

\* The ticker field: absent (None), "", " " and "ab".
NoTicker == [none |-> TRUE, s |-> <<>>]
Str(s) == [none |-> FALSE, s |-> s]
TickerInputs == { NoTicker, Str(<<>>), Str(<<" ">>), Str(<<"a", "b">>) }

\* Dates are day ordinals.
DateRanges == { <<100, 465>>, <<300, 310>> }
Todays == { 465 }

ProviderErrors == { <<"connection failed">> }

-----------------------------------------------------------------------------
(* Python and pandas helpers *)

\* bool(ticker): None and "" are falsy, every other str is truthy.
Truthy(t) == ~t.none /\ Len(t.s) > 0

Upper(c) == CASE c = "a" -> "A" [] c = "b" -> "B" [] OTHER -> c

\* str.upper()
StrUpper(s) == [i \in 1..Len(s) |-> Upper(s[i])]

\* yf.download's DataFrame: column labels of nlevels levels, a Date index and
\* one row of values per index entry, aligned with the columns.
\* The chunks of a str as one string.
RECURSIVE Join(_)
Join(s) == IF Len(s) = 0 THEN "" ELSE Head(s) \o Join(Tail(s))

\* A column label: the field, nested under the symbol when there are two levels.
Label(field, symbol, nlevels) == IF nlevels = 2 THEN <<field, Join(symbol)>> ELSE <<field>>

Frame(symbol, nlevels, fields, bars) ==
    [ nlevels |-> nlevels,
      columns |-> [i \in 1..Len(fields) |-> Label(fields[i], symbol, nlevels)],
      index   |-> [r \in 1..Len(bars) |-> TradingDays[r]],
      rows    |-> [r \in 1..Len(bars) |-> [i \in 1..Len(fields) |-> bars[r][fields[i]]]] ]

BarSeqs == UNION { [1..n -> BarPool] : n \in 0..MaxRows }

\* What one yf.download call can do: raise, or return a frame.
Responses(symbol) ==
    { [raises |-> TRUE, error |-> e] : e \in ProviderErrors } \cup
    { [raises |-> FALSE, df |-> Frame(symbol, n, f, b)] :
        n \in {1, 2}, f \in FieldLists, b \in BarSeqs }


IsMultiIndex(df) == df.nlevels = 2

\* Variant: the ticker level (level 1) is kept instead of the field level.
GetLevelValues0_level1(df) ==
    [df EXCEPT !.nlevels = 1, !.columns = [i \in 1..Len(df.columns) |-> <<df.columns[i][2]>>]]

\* df.columns = df.columns.get_level_values(0)
GetLevelValues0(df) ==
    [df EXCEPT !.nlevels = 1, !.columns = [i \in 1..Len(df.columns) |-> <<df.columns[i][1]>>]]

\* if isinstance(df.columns, pd.MultiIndex): flatten
Flatten(df) == IF IsMultiIndex(df) THEN GetLevelValues0(df) ELSE df

\* Variant: only the column axis is looked at.
Empty_columnsOnly(df) == Len(df.columns) = 0

\* df.empty
Empty(df) == Len(df.rows) = 0 \/ Len(df.columns) = 0

HasCol(df, name) == \E i \in 1..Len(df.columns) : df.columns[i] = <<name>>
ColPos(df, name) == CHOOSE i \in 1..Len(df.columns) :
    /\ df.columns[i] = <<name>>
    /\ \A j \in 1..(i - 1) : df.columns[j] # <<name>>

\* df[name] as the list of its values; the caller has checked HasCol.
Col(df, name) == [r \in 1..Len(df.rows) |-> df.rows[r][ColPos(df, name)]]

\* Series.dropna()
RECURSIVE DropNa(_)
DropNa(s) ==
    IF Len(s) = 0 THEN <<>>
    ELSE IF Head(s) = NaN THEN DropNa(Tail(s))
    ELSE <<Head(s)>> \o DropNa(Tail(s))

\* The largest and the smallest value of a non-empty sequence of numbers.
RECURSIVE MaxOf(_)
MaxOf(s) ==
    IF Len(s) = 1 THEN s[1]
    ELSE IF Head(s) >= MaxOf(Tail(s)) THEN Head(s) ELSE MaxOf(Tail(s))

RECURSIVE MinOf(_)
MinOf(s) ==
    IF Len(s) = 1 THEN s[1]
    ELSE IF Head(s) <= MinOf(Tail(s)) THEN Head(s) ELSE MinOf(Tail(s))

\* Variant: max(skipna=False), NaN as soon as one value is missing.
SeriesMax_noSkip(s) ==
    IF \E i \in 1..Len(s) : s[i] = NaN THEN NaN ELSE MaxOf(s)

\* Series.max() and Series.min(): skipna, and NaN when nothing is left.
SeriesMax(s) == LET v == DropNa(s) IN IF Len(v) = 0 THEN NaN ELSE MaxOf(v)
SeriesMin(s) == LET v == DropNa(s) IN IF Len(v) = 0 THEN NaN ELSE MinOf(v)

\* Variant: the third decimal is cut off instead of rounded.
Round2_truncate(x) == IF x = NaN THEN NaN ELSE 10 * (x \div 10)

\* Series.round(2) on one value: rint(x * 100) / 100, rint rounding a tie to
\* the even neighbour; NaN stays NaN.  In thousandths: to a multiple of 10.
Round2(x) ==
    IF x = NaN THEN NaN
    ELSE LET q == x \div 10
             r == x % 10
         IN  IF r < 5 THEN 10 * q
             ELSE IF r > 5 THEN 10 * (q + 1)
             ELSE IF q % 2 = 0 THEN 10 * q ELSE 10 * (q + 1)

Digit(n) == <<"0", "1", "2", "3", "4", "5", "6", "7", "8", "9">>[n + 1]

RECURSIVE Digits(_)
Digits(n) == IF n < 10 THEN <<Digit(n)>> ELSE Digits(n \div 10) \o <<Digit(n % 10)>>

Pad2(n) == <<Digit(n \div 10), Digit(n % 10)>>
Pad4(n) == <<Digit(n \div 1000), Digit((n \div 100) % 10), Digit((n \div 10) % 10), Digit(n % 10)>>

\* Timestamp.strftime("%Y-%m-%d")
Strftime(t) == Pad4(t.year) \o <<"-">> \o Pad2(t.month) \o <<"-">> \o Pad2(t.day)

\* f"${x:,.2f}": two decimals, "nan" for NaN (every value of the model is
\* below 1000, where the thousands separator adds nothing).
Money(x) ==
    IF x = NaN THEN <<"$", "n", "a", "n">>
    ELSE LET c == Round2(x) \div 10
         IN  <<"$">> \o Digits(c \div 100) \o <<".">> \o Pad2(c % 100)


-----------------------------------------------------------------------------
(* The pieces of update_dashboard *)

Figure(title, data) == [title |-> title, data |-> data]
CardBody(h5, p) == [h5 |-> h5, p |-> p]

Outputs(candlestick_fig, price_fig, close_card, high_card, low_card, table_data, table_cols) ==
    [ candlestick_fig |-> candlestick_fig, price_fig |-> price_fig,
      close_card |-> close_card, high_card |-> high_card, low_card |-> low_card,
      table_data |-> table_data, table_cols |-> table_cols ]

\* The return of the "if not ticker" branch.
EmptyBundle ==
    LET empty_fig == Figure(<<"No Ticker Selected">>, <<>>)
        empty_card == CardBody(<<"N/A">>, <<"Enter a ticker">>)
    IN  Outputs(empty_fig, empty_fig, empty_card, empty_card, empty_card, <<>>, <<>>)

\* The return of the except branch; e is the exception, str(e) its message.
ErrorBundle(e) ==
    LET error_fig == Figure(<<"Error: ">> \o e.msg, <<>>)
        error_card == CardBody(<<"Error">>, e.msg)
    IN  Outputs(error_fig, error_fig, error_card, error_card, error_card, <<>>, <<>>)

\* ValueError(f"No data found for ticker '{ticker}'")
NoDataError(t) ==
    [type |-> "ValueError", msg |-> <<"No data found for ticker '">> \o t.s \o <<"'">>]

KeyError(name) == [type |-> "KeyError", msg |-> <<"'", name, "'">>]
IndexError == [type |-> "IndexError", msg |-> <<"single positional indexer is out-of-bounds">>]

\* df.reset_index(): the index becomes the first column, named after it.
ResetIndex(df) ==
    [df EXCEPT !.columns = <<<<"Date">>>> \o df.columns,
               !.rows = [r \in 1..Len(df.rows) |-> <<df.index[r]>> \o df.rows[r]]]

\* df[name] = values, on a column the frame has.
SetCol(df, name, values) ==
    [df EXCEPT !.rows = [r \in 1..Len(df.rows) |->
        [df.rows[r] EXCEPT ![ColPos(df, name)] = values[r]]]]

\* df_chart["Date"] = pd.to_datetime(df_chart["Date"]).dt.strftime("%Y-%m-%d")
DateToString(df) ==
    SetCol(df, "Date", [r \in 1..Len(df.rows) |-> Strftime(Col(df, "Date")[r])])

\* The first of the names that df lacks (the KeyError of df[name]), or "".
FirstMissing(df, names) ==
    IF \A i \in 1..Len(names) : HasCol(df, names[i]) THEN ""
    ELSE names[CHOOSE i \in 1..Len(names) :
                 /\ ~HasCol(df, names[i])
                 /\ \A j \in 1..(i - 1) : HasCol(df, names[j])]

\* The columns section 2 reads, in the order it reads them.
FigureCols == <<"Date", "Open", "High", "Low", "Close", "Volume">>

CandlestickFig(t, df) ==
    Figure(StrUpper(t.s) \o <<" Candlestick Chart">>,
           << [type |-> "Candlestick", x |-> Col(df, "Date"),
               open |-> Col(df, "Open"), high |-> Col(df, "High"),
               low |-> Col(df, "Low"), close |-> Col(df, "Close")] >>)

PriceFig(t, df) ==
    Figure(StrUpper(t.s) \o <<" Close Price & Volume">>,
           << [type |-> "Scatter", x |-> Col(df, "Date"), y |-> Col(df, "Close")],
              [type |-> "Bar", x |-> Col(df, "Date"), y |-> Col(df, "Volume")] >>)

\* Variant: iloc[-1] without dropna().
LatestClose_noDropna(df) == LET s == Col(df, "Close") IN s[Len(s)]

\* float(df_metrics["Close"].dropna().iloc[-1]); the caller has checked that
\* a close is left.
LatestClose(df) == LET s == DropNa(Col(df, "Close")) IN s[Len(s)]

Week52High(df) == SeriesMax(Col(df, "High"))
Week52Low(df) == SeriesMin(Col(df, "Low"))

NumericCols == <<"Open", "High", "Low", "Close">>

\* for col in numeric_cols: df_table[col] = df_table[col].round(2)
RECURSIVE RoundCols(_, _)
RoundCols(df, names) ==
    IF Len(names) = 0 THEN df
    ELSE RoundCols(SetCol(df, Head(names),
                          [r \in 1..Len(df.rows) |-> Round2(Col(df, Head(names))[r])]),
                   Tail(names))

\* df_table.to_dict("records")
ToDictRecords(df) ==
    [r \in 1..Len(df.rows) |->
        [c \in {df.columns[i][1] : i \in 1..Len(df.columns)} |-> df.rows[r][ColPos(df, c)]]]

\* [{"name": i, "id": i} for i in df_table.columns]
TableCols(df) == [i \in 1..Len(df.columns) |-> [name |-> df.columns[i][1], id |-> df.columns[i][1]]]


-----------------------------------------------------------------------------
(* The request *)

Init ==
    /\ pc = "IDLE"
    /\ ticker = NoTicker
    /\ start_date = Unset
    /\ end_date = Unset
    /\ calls = <<>>
    /\ today = Unset
    /\ year_ago = Unset
    /\ df_chart = None
    /\ df_metrics = None
    /\ figs = None
    /\ latest_close = Unset
    /\ week_52_high = Unset
    /\ week_52_low = Unset
    /\ cards = None
    /\ ret = None
    /\ exc = None

\* The button is clicked: Dash calls update_dashboard with the three State values.
Click ==
    /\ pc = "IDLE"
    /\ \E t \in TickerInputs, range \in DateRanges :
        /\ ticker' = t
        /\ start_date' = range[1]
        /\ end_date' = range[2]
    /\ pc' = "VALIDATING"
    /\ UNCHANGED <<calls, today, year_ago, df_chart, df_metrics, figs, latest_close,
                   week_52_high, week_52_low, cards, ret, exc>>

\* if not ticker: return the empty outputs
Validate ==
    /\ pc = "VALIDATING"
    /\ IF ~Truthy(ticker)
       THEN /\ pc' = "EMPTY"
            /\ ret' = EmptyBundle
       ELSE /\ pc' = "FETCH_CHART"
            /\ ret' = ret
    /\ UNCHANGED <<ticker, start_date, end_date, calls, today, year_ago, df_chart,
                   df_metrics, figs, latest_close, week_52_high, week_52_low, cards, exc>>

\* Variant: the download is tried again instead of giving up.
Except_retry(e) ==
    /\ pc' = "FETCH_CHART"
    /\ ret' = ret

\* The except branch: the outputs that show the exception e.
Except(e) ==
    /\ pc' = "ERROR"
    /\ ret' = ErrorBundle(e)

Call(start, end, r) == [symbol |-> ticker.s, start |-> start, end |-> end, result |-> r]

\* df_chart = yf.download(ticker, start=start_date, end=end_date)
DownloadChart ==
    /\ pc = "FETCH_CHART"
    /\ \E r \in Responses(ticker.s) :
        /\ calls' = Append(calls, Call(start_date, end_date, r))
        /\ IF r.raises
           THEN /\ Except([type |-> "Exception", msg |-> r.error])
                /\ df_chart' = df_chart
           ELSE /\ pc' = "FETCH_METRICS"
                /\ df_chart' = r.df
                /\ ret' = ret
    /\ UNCHANGED <<ticker, start_date, end_date, today, year_ago, df_metrics, figs,
                   latest_close, week_52_high, week_52_low, cards, exc>>

\* today = date.today(); year_ago = today - timedelta(days=365)
\* df_metrics = yf.download(ticker, start=year_ago, end=today)
DownloadMetrics ==
    /\ pc = "FETCH_METRICS"
    /\ \E d \in Todays, r \in Responses(ticker.s) :
        /\ today' = d
        /\ year_ago' = d - 365
        /\ calls' = Append(calls, Call(d - 365, d, r))
        /\ IF r.raises
           THEN /\ Except([type |-> "Exception", msg |-> r.error])
                /\ df_metrics' = df_metrics
           ELSE /\ pc' = "NORMALIZE"
                /\ df_metrics' = r.df
                /\ ret' = ret
    /\ UNCHANGED <<ticker, start_date, end_date, df_chart, figs, latest_close,
                   week_52_high, week_52_low, cards, exc>>

\* Flatten both frames, then raise ValueError when either is empty.
Normalize ==
    /\ pc = "NORMALIZE"
    /\ df_chart' = Flatten(df_chart)
    /\ df_metrics' = Flatten(df_metrics)
    /\ IF Empty(df_chart') \/ Empty(df_metrics')
       THEN Except(NoDataError(ticker))
       ELSE /\ pc' = "FIGURES"
            /\ ret' = ret
    /\ UNCHANGED <<ticker, start_date, end_date, calls, today, year_ago, figs,
                   latest_close, week_52_high, week_52_low, cards, exc>>

\* An exception outside the try statement leaves the callback.
Raise(e) ==
    /\ pc' = "RAISED"
    /\ exc' = e

\* Section 2: reset the index, format the dates, build the two figures.
Figures ==
    /\ pc = "FIGURES"
    /\ LET df == ResetIndex(df_chart)
           missing == FirstMissing(df, FigureCols)
       IN  IF missing # ""
           THEN /\ Raise(KeyError(missing))
                /\ df_chart' = df
                /\ figs' = figs
           ELSE /\ pc' = "METRICS"
                /\ df_chart' = DateToString(df)
                /\ figs' = [candlestick_fig |-> CandlestickFig(ticker, df_chart'),
                            price_fig |-> PriceFig(ticker, df_chart')]
                /\ exc' = exc
    /\ UNCHANGED <<ticker, start_date, end_date, calls, today, year_ago, df_metrics,
                   latest_close, week_52_high, week_52_low, cards, ret>>

\* Variant: section 3 reads the chart frame.
MetricsSource_chart == df_chart

\* The frame section 3 reads.
MetricsSource == df_metrics

\* The exception section 3 raises on df, or None.
MetricsError(df) ==
    IF ~HasCol(df, "Close") THEN KeyError("Close")
    ELSE IF Len(DropNa(Col(df, "Close"))) = 0 THEN IndexError
    ELSE IF ~HasCol(df, "High") THEN KeyError("High")
    ELSE IF ~HasCol(df, "Low") THEN KeyError("Low")
    ELSE None

MetricCards(close, high, low) ==
    [ close_card |-> CardBody(<<"Latest Close">>, Money(close)),
      high_card  |-> CardBody(<<"52-Week High">>, Money(high)),
      low_card   |-> CardBody(<<"52-Week Low">>, Money(low)) ]

\* Section 3: the three metrics and their cards.
Metrics ==
    /\ pc = "METRICS"
    /\ IF MetricsError(MetricsSource) # None
       THEN /\ Raise(MetricsError(MetricsSource))
            /\ UNCHANGED <<latest_close, week_52_high, week_52_low, cards>>
       ELSE /\ pc' = "TABLE"
            /\ latest_close' = LatestClose(MetricsSource)
            /\ week_52_high' = Week52High(MetricsSource)
            /\ week_52_low' = Week52Low(MetricsSource)
            /\ cards' = MetricCards(latest_close', week_52_high', week_52_low')
            /\ exc' = exc
    /\ UNCHANGED <<ticker, start_date, end_date, calls, today, year_ago, df_chart,
                   df_metrics, figs, ret>>

\* Sections 4 and 5: the table of the chart frame, and the return.
Table ==
    /\ pc = "TABLE"
    /\ LET missing == FirstMissing(df_chart, NumericCols)
           df_table == RoundCols(df_chart, NumericCols)
       IN  IF missing # ""
           THEN /\ Raise(KeyError(missing))
                /\ ret' = ret
           ELSE /\ pc' = "READY"
                /\ ret' = Outputs(figs.candlestick_fig, figs.price_fig,
                                  cards.close_card, cards.high_card, cards.low_card,
                                  ToDictRecords(df_table), TableCols(df_table))
                /\ exc' = exc
    /\ UNCHANGED <<ticker, start_date, end_date, calls, today, year_ago, df_chart,
                   df_metrics, figs, latest_close, week_52_high, week_52_low, cards>>

Next ==
    \/ Click
    \/ Validate
    \/ DownloadChart
    \/ DownloadMetrics
    \/ Normalize
    \/ Figures
    \/ Metrics
    \/ Table

Spec == Init /\ [][Next]_vars


-----------------------------------------------------------------------------
(* One whole call of update_dashboard, as a function of the ticker and of    *)
(* what the two downloads give: where the call ends, what it returns and    *)
(* what it raises.  rm is what the second download gives if it is reached.  *)

Ended(where, outputs, raised) == [pc |-> where, ret |-> outputs, exc |-> raised]

update_dashboard(t, rc, rm) ==
    IF ~Truthy(t) THEN Ended("EMPTY", EmptyBundle, None)
    ELSE IF rc.raises
    THEN Ended("ERROR", ErrorBundle([type |-> "Exception", msg |-> rc.error]), None)
    ELSE IF rm.raises
    THEN Ended("ERROR", ErrorBundle([type |-> "Exception", msg |-> rm.error]), None)
    ELSE LET chart == Flatten(rc.df)
             metrics == Flatten(rm.df)
             indexed == ResetIndex(chart)
             dated == DateToString(indexed)
             table == RoundCols(dated, NumericCols)
             shown == MetricCards(LatestClose(metrics), Week52High(metrics), Week52Low(metrics))
         IN  IF Empty(chart) \/ Empty(metrics)
             THEN Ended("ERROR", ErrorBundle(NoDataError(t)), None)
             ELSE IF FirstMissing(indexed, FigureCols) # ""
             THEN Ended("RAISED", None, KeyError(FirstMissing(indexed, FigureCols)))
             ELSE IF MetricsError(metrics) # None
             THEN Ended("RAISED", None, MetricsError(metrics))
             ELSE IF FirstMissing(dated, NumericCols) # ""
             THEN Ended("RAISED", None, KeyError(FirstMissing(dated, NumericCols)))
             ELSE Ended("READY",
                        Outputs(CandlestickFig(t, dated), PriceFig(t, dated),
                                shown.close_card, shown.high_card, shown.low_card,
                                ToDictRecords(table), TableCols(table)),
                        None)

Terminal == {"EMPTY", "ERROR", "READY"}
Over == Terminal \cup {"RAISED"}

\* The request, step by step, ends as the whole call does.
StepsAgree ==
    (pc \in Over /\ Len(calls) = 2) =>
        Ended(pc, ret, exc) = update_dashboard(ticker, calls[1].result, calls[2].result)


-----------------------------------------------------------------------------
(* The properties *)

\* sub occurs in s as a run of consecutive chunks.
Contains(s, sub) ==
    \E k \in 0..(Len(s) - Len(sub)) : \A i \in 1..Len(sub) : s[k + i] = sub[i]

\* Absent, empty or nothing but spaces.
IsBlank(t) == t.none \/ \A i \in 1..Len(t.s) : t.s[i] = " "

Raised(i) == calls[i].result.raises
SomeCallRaised == \E i \in 1..Len(calls) : Raised(i)

\* What the provider gave for the chart range and for the trailing year.
chartSeries == calls[1].result.df
metricSeries == calls[2].result.df

\* The position of a field among the columns the provider sent, at either nesting.
FieldPos(df, field) == CHOOSE i \in 1..Len(df.columns) : df.columns[i][1] = field
Field(df, r, field) == df.rows[r][FieldPos(df, field)]

TableIsEmpty == ret.table_data = <<>> /\ ret.table_cols = <<>>

\* C1: a request whose ticker is absent, empty or only whitespace makes no
\* provider call and returns the EMPTY bundle: both figures titled "No Ticker
\* Selected", the three cards reading "N/A", table data [] and columns [].
C1_BlankTickerEmptyBundle ==
    (pc # "IDLE" /\ IsBlank(ticker)) =>
        /\ calls = <<>>
        /\ pc \in {"VALIDATING", "EMPTY"}
        /\ pc = "EMPTY" =>
            /\ ret.candlestick_fig.title = <<"No Ticker Selected">>
            /\ ret.price_fig.title = <<"No Ticker Selected">>
            /\ ret.close_card.h5 = <<"N/A">>
            /\ ret.high_card.h5 = <<"N/A">>
            /\ ret.low_card.h5 = <<"N/A">>
            /\ TableIsEmpty

\* C2: every failure of a request is caught inside update_dashboard and turned
\* into the ERROR bundle; no exception leaves update_dashboard.
C2_NoExceptionLeaves == exc = None /\ pc # "RAISED"

\* The error message an ERROR bundle shows.
Shown == ret.close_card.p

\* C3: with a non-empty ticker T, when a download raises, or both return and
\* one has zero rows, the request ends in the ERROR bundle: both titles and the
\* three cards carry the message (for zero rows it contains "No data found for
\* ticker 'T'"), the table is empty and no derivation step has run.
C3_FetchFailureIsErrorBundle ==
    LET zeroRows == /\ Len(calls) = 2
                    /\ ~SomeCallRaised
                    /\ pc # "NORMALIZE"
                    /\ (Len(chartSeries.rows) = 0 \/ Len(metricSeries.rows) = 0)
    IN  (Truthy(ticker) /\ (SomeCallRaised \/ zeroRows)) =>
            /\ pc = "ERROR"
            /\ Contains(ret.candlestick_fig.title, Shown)
            /\ Contains(ret.price_fig.title, Shown)
            /\ ret.close_card.h5 = <<"Error">>
            /\ ret.high_card = ret.close_card
            /\ ret.low_card = ret.close_card
            /\ SomeCallRaised => Shown \in ProviderErrors
            /\ zeroRows =>
                Contains(Shown, <<"No data found for ticker '">> \o ticker.s \o <<"'">>)
            /\ TableIsEmpty
            /\ figs = None /\ cards = None /\ latest_close = Unset
            /\ week_52_high = Unset /\ week_52_low = Unset

C3_Witness ==
    /\ pc = "ERROR" /\ Len(calls) = 2 /\ ~SomeCallRaised
    /\ Len(chartSeries.rows) > 0 /\ Len(metricSeries.rows) = 0
    /\ ticker.s = <<"a", "b">>

\* The state of the request in the terms of the state machine of the spec.
Phase(p) ==
    CASE p \in {"FETCH_CHART", "FETCH_METRICS", "NORMALIZE"} -> "FETCHING"
      [] p \in {"FIGURES", "METRICS", "TABLE"} -> "DERIVING"
      [] OTHER -> p

Transitions ==
    { <<"IDLE", "VALIDATING">>, <<"VALIDATING", "EMPTY">>, <<"VALIDATING", "FETCHING">>,
      <<"FETCHING", "ERROR">>, <<"FETCHING", "DERIVING">>, <<"DERIVING", "READY">> }

\* C4: a request follows only IDLE -> VALIDATING -> (EMPTY | FETCHING) ->
\* (ERROR | DERIVING) -> READY, DERIVING is entered only with two non-empty
\* series, the request ends in one of EMPTY, ERROR, READY, and nothing leaves
\* a terminal state.
C4_Lifecycle ==
    [][ /\ Phase(pc') # Phase(pc) => <<Phase(pc), Phase(pc')>> \in Transitions
        /\ (Phase(pc) = "FETCHING" /\ Phase(pc') = "DERIVING") =>
              (Len(df_chart'.rows) > 0 /\ Len(df_metrics'.rows) > 0)
        /\ pc \in Terminal => pc' = pc ]_vars

\* C10: the provider is called at most twice, first for the chart range and
\* then for the trailing 365 days, each at most once; after a call that fails
\* no call follows, and the request ends in the ERROR bundle.
C10_AtMostTwoCallsInOrder ==
    /\ Len(calls) <= 2
    /\ Len(calls) >= 1 => (calls[1].start = start_date /\ calls[1].end = end_date)
    /\ Len(calls) = 2 => /\ calls[2].start = today - 365
                         /\ calls[2].end = today
                         /\ ~Raised(1)
    /\ \A i \in 1..Len(calls) : Raised(i) =>
          /\ i = Len(calls)
          /\ pc = "ERROR"
          /\ ret.close_card = CardBody(<<"Error">>, calls[i].result.error)
          /\ TableIsEmpty
    /\ (pc \in {"VALIDATING", "FETCH_CHART"} => Len(calls) = 0)
    /\ (pc = "FETCH_METRICS" => Len(calls) = 1)

C10_Witness == pc = "ERROR" /\ Len(calls) = 2 /\ Raised(2) /\ start_date # today - 365


\* The rows of df whose close is not missing.
WithClose(df) == { r \in 1..Len(df.rows) : Field(df, r, "Close") # NaN }
Last(S) == CHOOSE r \in S : \A q \in S : q <= r

\* C6: in a READY bundle latestClose is the close of the chronologically last
\* bar of metricSeries whose close is not missing, also when later bars have a
\* missing close; it is never missing, and the card shows it.
C6_LatestCloseIsLastDefinedClose ==
    pc = "READY" =>
        /\ WithClose(metricSeries) # {}
        /\ latest_close = Field(metricSeries, Last(WithClose(metricSeries)), "Close")
        /\ latest_close # NaN
        /\ ret.close_card.p = Money(latest_close)

\* A later bar of metricSeries has no close, and chartSeries ends on another close.
C6_Witness ==
    /\ pc = "READY"
    /\ Last(WithClose(metricSeries)) < Len(metricSeries.rows)
    /\ Field(chartSeries, Len(chartSeries.rows), "Close") # latest_close

\* a >= b on floats: false when either is NaN.
FloatGeq(a, b) == a # NaN /\ b # NaN /\ a >= b

\* C7: whenever the metrics of a (non-empty) metricSeries are derived,
\* week52High >= week52Low.
C7_HighAtLeastLow ==
    week_52_high # Unset =>
        /\ Len(metricSeries.rows) > 0
        /\ week_52_low # Unset
        /\ FloatGeq(week_52_high, week_52_low)

\* The metrics of a series that holds a row of missing values and is not flat.
C7_Witness ==
    /\ pc = "READY"
    /\ \E r \in 1..Len(metricSeries.rows) : Field(metricSeries, r, "High") = NaN
    /\ week_52_high > week_52_low

\* x (in thousandths) to two decimals; a tie goes up, or to the even neighbour.
HalfUp(x) == IF x = NaN THEN NaN ELSE 10 * ((x + 5) \div 10)
HalfEven(x) ==
    IF x = NaN THEN NaN
    ELSE IF x % 10 = 5 /\ (x \div 10) % 2 = 0 THEN 10 * (x \div 10)
    ELSE 10 * ((x + 5) \div 10)

\* The calendar date that a YYYY-MM-DD text names.
DigitOf(c) == CHOOSE n \in 0..9 : Digit(n) = c
ParseIso(d) ==
    [ year  |-> 1000 * DigitOf(d[1]) + 100 * DigitOf(d[2]) + 10 * DigitOf(d[3]) + DigitOf(d[4]),
      month |-> 10 * DigitOf(d[6]) + DigitOf(d[7]),
      day   |-> 10 * DigitOf(d[9]) + DigitOf(d[10]) ]

\* The table has one row per chartSeries bar, in order, with the prices
\* rounded (a tie going up, or to the even neighbour) and Date and Volume as
\* in the source.
TableMatches(tieUp) ==
    /\ Len(ret.table_data) = Len(chartSeries.rows)
    /\ \A r \in 1..Len(chartSeries.rows) :
        /\ \A f \in {"Open", "High", "Low", "Close"} :
              ret.table_data[r][f] = IF tieUp THEN HalfUp(Field(chartSeries, r, f))
                                     ELSE HalfEven(Field(chartSeries, r, f))
        /\ ret.table_data[r]["Volume"] = Field(chartSeries, r, "Volume")
        /\ Len(ret.table_data[r]["Date"]) = 10
        /\ ret.table_data[r]["Date"][5] = "-" /\ ret.table_data[r]["Date"][8] = "-"
        /\ ParseIso(ret.table_data[r]["Date"]) = chartSeries.index[r]

\* C8 as stated: the prices of the table are the source values rounded to 2
\* decimals with standard rounding (a tie goes up).
C8_TableRoundsHalfUp == pc = "READY" => TableMatches(TRUE)

\* C8: in a READY bundle the table has one row per chartSeries bar, in order;
\* Open, High, Low, Close are the source values rounded to 2 decimals, a tie
\* going to the even neighbour (123.456 -> 123.46, 11.125 -> 11.12); Date is
\* the source date as YYYY-MM-DD and Volume the source value.
C8_TableRoundsHalfEven == pc = "READY" => TableMatches(FALSE)

\* A table of two rows with a price that rounds up and a tie that rounds down.
C8_Witness ==
    /\ pc = "READY"
    /\ Len(ret.table_data) = 2
    /\ \E r \in 1..2 : Field(chartSeries, r, "Close") = 123456 /\ ret.table_data[r]["Close"] = 123460
    /\ \E r \in 1..2 : Field(chartSeries, r, "Close") = 11125 /\ ret.table_data[r]["Close"] = 11120

\* The single-level response with the values of r.
SingleLevel(r) ==
    IF r.raises THEN r
    ELSE [r EXCEPT !.df.nlevels = 1,
                   !.df.columns = [i \in 1..Len(r.df.columns) |-> <<r.df.columns[i][1]>>]]

\* C9: a request whose series arrive with columns nested under the ticker ends
\* as the request whose series arrive single-level with the same values (same
\* status, figures, cards, table rows, flat column names), for both series.
C9_NestedColumnsSameBundle ==
    (pc \in Over /\ Len(calls) = 2) =>
        /\ Ended(pc, ret, exc) =
              update_dashboard(ticker, SingleLevel(calls[1].result), SingleLevel(calls[2].result))
        /\ pc = "READY" =>
              \A i \in 1..Len(ret.table_cols) :
                  ret.table_cols[i].name \in {"Date", "Open", "High", "Low", "Close", "Volume"}

C9_Witness ==
    /\ pc = "READY"
    /\ chartSeries.nlevels = 2 /\ metricSeries.nlevels = 2
    /\ chartSeries.columns[1] = <<"Open", "ab">>
    /\ Len(ret.table_data) = 2


\* The three metric cards of a returned bundle.
CardsOf(outputs) == <<outputs.close_card, outputs.high_card, outputs.low_card>>

\* The other request: the same ticker, the same today and the same response
\* for the trailing 365 days, and rc as the response for its chart range.
Other(rc) == update_dashboard(ticker, rc, calls[2].result)

\* Chart responses of the other request: a failure, no rows, and one bar.
\* The request of the state takes every response; agreeing with these fixed
\* ones, any two requests agree with each other.
OtherCharts ==
    { [raises |-> TRUE, error |-> <<"connection failed">>],
      [raises |-> FALSE, df |-> Frame(ticker.s, 1, OHLCV, <<>>)],
      [raises |-> FALSE,
       df |-> Frame(ticker.s, 2, OHLCV, <<CHOOSE b \in BarPool : b.Close = 123456>>)] }

\* C5 as stated: two requests with the same ticker, the same today and the
\* same response for the trailing 365 days show the same three metric cards,
\* whatever range was chosen and whatever the provider returned for it.
C5_SameCardsWhateverChart ==
    (pc \in Terminal /\ Len(calls) = 2) =>
        \A rc \in OtherCharts :
            Other(rc).pc \in Terminal => CardsOf(Other(rc).ret) = CardsOf(ret)

\* C5: two requests that both end READY, with the same ticker, the same today
\* and the same response for the trailing 365 days, show the same three metric
\* cards, whatever range was chosen and whatever the provider returned for it.
C5_SameCardsWhenBothReady ==
    pc = "READY" =>
        \A rc \in OtherCharts :
            Other(rc).pc = "READY" => CardsOf(Other(rc).ret) = CardsOf(ret)

\* A READY request that has another READY request with another range and
\* other chart values.
C5_Witness ==
    /\ pc = "READY"
    /\ start_date # today - 365
    /\ \E rc \in OtherCharts :
        /\ Other(rc).pc = "READY"
        /\ Other(rc).ret.table_data # ret.table_data
        /\ Field(chartSeries, Len(chartSeries.rows), "Close") # latest_close

====
